---- MODULE Spec2Model ----
(***************************************************************************)
(* kak-lsp: the daemon lifecycle coordinator of main.rs (client            *)
(* invocations racing to reach or spawn the session's backend) and the     *)
(* text-edit engine of text_edit.rs (offset translation, file patching).   *)
(***************************************************************************)
EXTENDS Integers, Sequences, FiniteSets, TLC

(***************************************************************************)
(* Bounds of the model.                                                    *)
(***************************************************************************)
NumClients == 3
MaxLineLen == 2     \* characters of a line before its line break
MaxChar == 4        \* largest character index handed to the translator
MaxTextLen == 2     \* characters of a patched file
MaxEdits == 2       \* edits of one batch
MaxLine == 1        \* largest line index of an edit position
MaxCol == 2         \* largest character index of an edit position
MaxCode == 2        \* largest exit code of a backend
MaxNameLen == 2     \* characters of a session name
MaxReqLen == 3      \* bytes of a request

(***************************************************************************)
(* Program constants.                                                      *)
(***************************************************************************)
MaxAttempts == 10
SleepMs == 30
TempMode == 384     \* 0600, the mode mkstemp gives the temporary file

Clients == 1..NumClients

VARIABLES
    \* ---- main.rs: one --request invocation per client ----
    pc,             \* position of each invocation in main
    exit,           \* how the invocation left main
    attempt,        \* failed iterations of the retry loop
    slept,          \* milliseconds spent in thread::sleep
    lockfile,       \* inode behind the invocation's open lock file, 0 = not open
    locked,         \* the invocation holds the advisory lock on that inode
    lockRes,        \* what try_lock_exclusive returned
    created,        \* what File::create of the lock file returned
    connects,       \* calls of the connect closure made so far
    lockfile_path,  \* inode the lock-file path names, 0 = no file
    inodes,         \* inodes created so far for the lock-file path
    child,          \* the process spawned by spin_up_server
    listening,      \* a backend listens on the control socket
    files,          \* control files present beside the lock file
    received,       \* requests written to the control socket
    initial_request,\* requests a spawned backend consumed from its stdin
    \* ---- text_edit.rs: one call of the offset translator ----
    o_pc,           \* "input" before the call, "done" after it
    o_enc,          \* offset_encoding
    o_line,         \* line
    o_char,         \* character
    o_fwd,          \* result of character_to_offset
    o_rev,          \* result of byte_to_offset
    \* ---- text_edit.rs: one call of apply_text_edits_to_file ----
    f_pc,           \* position in apply_text_edits_to_file
    fs,             \* the files: path -> [exists, data, mode]
    f_enc,          \* offset_encoding
    f_n,            \* length of text_edits
    text_edits,     \* the edits the loop has taken from the list so far
    text,           \* the rope read from the file
    stat_mode,      \* stat.st_mode
    cursor,         \* cursor
    output,         \* what was written into the BufWriter
    result,         \* what the call returned
    io_err,         \* the system call that failed, if any
    \* ---- text_edit.rs: one call of apply_annotated_text_edits on a buffer ----
    b_pc,           \* "input", "normalized" (edits collected), "done"
    b_text,         \* document.text
    b_enc,          \* offset_encoding
    b_input,        \* text_edits as passed in
    b_sorted,       \* text_edits after sort_by_key
    b_coalesced,    \* coalesced_edits
    b_edits,        \* edits: the KakouneTextEdit list
    b_result,       \* what apply_text_edits_to_buffer returned
    b_panic,        \* the panic that ended the call, "no" if none
    b_exec,         \* the command handed to ctx.exec
    \* ---- main.rs: a backend leaving through goodbye ----
    exit_code,      \* the code each spawned backend gave goodbye, if it did
    warned,         \* files the last goodbye failed to remove (it warns)
    \* ---- main.rs: the session names of one process ----
    m_pc,           \* "start", "env" (kak_session read), "validated", "exited"
    kak_session,    \* the environment variable kak_session
    arg_session,    \* the --session argument
    env_session,    \* session as env_var returned it
    session,        \* the SessionId
    lsp_session,    \* the LspSessionId
    m_exit,         \* the status of process::exit, if called
    \* ---- main.rs: the bytes of one request on their way to the backend ----
    q_pc,           \* "start", "read", "connected", "spawned", "backend_read",
                    \* "consumed"
    q_stdin,        \* the bytes on the client's standard input
    raw_request,    \* raw_request of the client
    socket,         \* the bytes written to the control socket
    child_stdin,    \* the bytes piped to the spawned backend's stdin
    backend_raw_request,      \* raw_request of the spawned backend
    backend_initial_request   \* initial_request of the spawned backend

lifeVars == <<pc, exit, attempt, slept, lockfile, locked, lockRes, created,
              connects, lockfile_path, inodes, child, listening, files,
              received, initial_request>>

offVars == <<o_pc, o_enc, o_line, o_char, o_fwd, o_rev>>

patchVars == <<f_pc, fs, f_enc, f_n, text_edits, text, stat_mode, cursor,
               output, result, io_err>>

bufVars == <<b_pc, b_text, b_enc, b_input, b_sorted, b_coalesced, b_edits,
             b_result, b_panic, b_exec>>

exitVars == <<exit_code, warned>>

startVars == <<m_pc, kak_session, arg_session, env_session, session,
               lsp_session, m_exit>>

reqVars == <<q_pc, q_stdin, raw_request, socket, child_stdin,
             backend_raw_request, backend_initial_request>>

vars == <<lifeVars, offVars, patchVars, bufVars, exitVars, startVars,
          reqVars>>

(***************************************************************************)
(* main.rs                                                                 *)
(***************************************************************************)

\* A goodbye that cleans up whatever the code.
goodbye_AnyCode(code, fls) == fls \ {"sock", "pid"}

\* goodbye: a zero code removes the socket file and the pid file.
goodbye(code, fls) == IF code = 0 THEN fls \ {"sock", "pid"} ELSE fls

\* The connect closure: UnixStream::connect succeeds iff a backend listens;
\* on success the raw request is written to the stream.
connect == listening

\* Leaving main: the process ends, its descriptors close, its lock goes.
Leave(p, how) ==
    /\ pc' = [pc EXCEPT ![p] = "done"]
    /\ exit' = [exit EXCEPT ![p] = how]
    /\ locked' = [locked EXCEPT ![p] = FALSE]
    /\ lockfile' = [lockfile EXCEPT ![p] = 0]

\* flock on the inode behind the descriptor: free iff no other holder.
LockFree(p) ==
    \A q \in Clients \ {p} : ~(locked[q] /\ lockfile[q] = lockfile[p])

LifeInit ==
    /\ pc = [p \in Clients |-> "connect"]
    /\ exit = [p \in Clients |-> "running"]
    /\ attempt = [p \in Clients |-> 0]
    /\ slept = [p \in Clients |-> 0]
    /\ lockfile = [p \in Clients |-> 0]
    /\ locked = [p \in Clients |-> FALSE]
    /\ lockRes = [p \in Clients |-> "none"]
    /\ created = [p \in Clients |-> "none"]
    /\ connects = [p \in Clients |-> 0]
    /\ lockfile_path = 0
    /\ inodes = 0
    /\ child = [p \in Clients |-> "none"]
    /\ listening = FALSE
    /\ files = {}
    /\ received = {}
    /\ initial_request = {}

\* FirstConnect without the return of line 255.
FirstConnect_NoReturn(p) ==
    /\ pc[p] = "connect"
    /\ connects' = [connects EXCEPT ![p] = @ + 1]
    /\ received' = IF connect THEN received \cup {p} ELSE received
    /\ pc' = [pc EXCEPT ![p] = "create"]
    /\ UNCHANGED <<exit, locked, lockfile, attempt, slept, lockRes, created,
                   lockfile_path, inodes, child, listening, files,
                   initial_request>>

\* main, lines 245-256: the first connect.
FirstConnect(p) ==
    /\ pc[p] = "connect"
    /\ connects' = [connects EXCEPT ![p] = @ + 1]
    /\ IF connect
         THEN /\ received' = received \cup {p}
              /\ Leave(p, "return")
         ELSE /\ pc' = [pc EXCEPT ![p] = "create"]
              /\ UNCHANGED <<exit, locked, lockfile, received>>
    /\ UNCHANGED <<attempt, slept, lockRes, created, lockfile_path, inodes,
                   child, listening, files, initial_request>>

\* main, lines 257-265: File::create opens the path's file or makes a new one.
CreateLockfile(p) ==
    /\ pc[p] = "create"
    /\ \E ok \in BOOLEAN :
         IF ok
           THEN /\ IF lockfile_path = 0
                     THEN /\ inodes' = inodes + 1
                          /\ lockfile_path' = inodes + 1
                          /\ lockfile' = [lockfile EXCEPT ![p] = inodes + 1]
                     ELSE /\ lockfile' = [lockfile EXCEPT ![p] = lockfile_path]
                          /\ UNCHANGED <<inodes, lockfile_path>>
                /\ created' = [created EXCEPT ![p] = "ok"]
                /\ pc' = [pc EXCEPT ![p] = "lock"]
                /\ UNCHANGED <<exit, locked, files>>
           ELSE /\ created' = [created EXCEPT ![p] = "err"]
                /\ Leave(p, "goodbye1")
                /\ files' = goodbye(1, files)
                /\ UNCHANGED <<inodes, lockfile_path>>
    /\ UNCHANGED <<attempt, slept, lockRes, connects, child, listening,
                   received, initial_request>>

\* main, line 266: try_lock_exclusive; any error counts as "not acquired".
TryLock(p) ==
    /\ pc[p] = "lock"
    /\ \E err \in BOOLEAN :
         IF ~err /\ LockFree(p)
           THEN /\ locked' = [locked EXCEPT ![p] = TRUE]
                /\ lockRes' = [lockRes EXCEPT ![p] = "ok"]
                /\ pc' = [pc EXCEPT ![p] = "spawn"]
           ELSE /\ lockRes' = [lockRes EXCEPT ![p] =
                                 IF err THEN "error" ELSE "contended"]
                /\ pc' = [pc EXCEPT ![p] = "retry"]
                /\ UNCHANGED locked
    /\ UNCHANGED <<exit, attempt, slept, lockfile, created, connects,
                   lockfile_path, inodes, child, listening, files, received,
                   initial_request>>

\* spin_up_server, lines 447-463: spawn the child, pipe the request to it.
spin_up_server(p) ==
    /\ pc[p] = "spawn"
    /\ child' = [child EXCEPT ![p] = "spawned"]
    /\ pc' = [pc EXCEPT ![p] = "wait"]
    /\ UNCHANGED <<exit, attempt, slept, lockfile, locked, lockRes, created,
                   connects, lockfile_path, inodes, listening, files,
                   received, initial_request>>

\* The spawned process: daemonizes, consumes the initial request and
\* listens on the control socket.
BackendStartup(p) ==
    /\ child[p] = "spawned"
    /\ child' = [child EXCEPT ![p] = "running"]
    /\ listening' = TRUE
    /\ files' = files \cup {"sock", "pid"}
    /\ initial_request' = initial_request \cup {p}
    /\ UNCHANGED <<pc, exit, attempt, slept, lockfile, locked, lockRes,
                   created, connects, lockfile_path, inodes, received>>

\* A wait that returns only when the backend itself has exited.
WaitChild_UntilExit(p) ==
    /\ pc[p] = "wait"
    /\ child[p] = "exited"
    /\ pc' = [pc EXCEPT ![p] = "unlock"]
    /\ UNCHANGED <<exit, attempt, slept, lockfile, locked, lockRes, created,
                   connects, lockfile_path, inodes, child, listening, files,
                   received, initial_request>>

\* spin_up_server, line 464: child.wait() returns once startup is over.
WaitChild(p) ==
    /\ pc[p] = "wait"
    /\ child[p] \in {"running", "exited"}
    /\ pc' = [pc EXCEPT ![p] = "unlock"]
    /\ UNCHANGED <<exit, attempt, slept, lockfile, locked, lockRes, created,
                   connects, lockfile_path, inodes, child, listening, files,
                   received, initial_request>>

\* main, lines 268-271: unlock, or goodbye(1) when unlocking fails.
Unlock(p) ==
    /\ pc[p] = "unlock"
    /\ \E ok \in BOOLEAN :
         IF ok
           THEN /\ locked' = [locked EXCEPT ![p] = FALSE]
                /\ pc' = [pc EXCEPT ![p] = "remove"]
                /\ UNCHANGED <<exit, lockfile, files>>
           ELSE /\ Leave(p, "goodbye1")
                /\ files' = goodbye(1, files)
    /\ UNCHANGED <<attempt, slept, lockRes, created, connects, lockfile_path,
                   inodes, child, listening, received, initial_request>>

\* main, lines 272-273: remove_file(lockfile_path).expect(..); return.
RemoveLockfile(p) ==
    /\ pc[p] = "remove"
    /\ IF lockfile_path # 0
         THEN /\ lockfile_path' = 0
              /\ Leave(p, "return")
         ELSE /\ Leave(p, "panic")
              /\ UNCHANGED lockfile_path
    /\ UNCHANGED <<attempt, slept, lockRes, created, connects, inodes, child,
                   listening, files, received, initial_request>>

\* RetryConnect whose successful connect does not write the request.
RetryConnect_NoWrite(p) ==
    /\ pc[p] = "retry"
    /\ attempt[p] < MaxAttempts
    /\ connects' = [connects EXCEPT ![p] = @ + 1]
    /\ IF connect
         THEN /\ Leave(p, "return")
              /\ UNCHANGED <<attempt, slept, files>>
         ELSE /\ attempt' = [attempt EXCEPT ![p] = @ + 1]
              /\ slept' = [slept EXCEPT ![p] = @ + SleepMs]
              /\ IF attempt[p] + 1 = MaxAttempts
                   THEN /\ Leave(p, "goodbye1")
                        /\ files' = goodbye(1, files)
                   ELSE UNCHANGED <<pc, exit, locked, lockfile, files>>
    /\ UNCHANGED <<received, lockRes, created, lockfile_path, inodes, child,
                   listening, initial_request>>

\* RetryConnect with the loop running 0..9 instead of 0..10.
RetryConnect_OneShort(p) ==
    /\ pc[p] = "retry"
    /\ attempt[p] < MaxAttempts - 1
    /\ connects' = [connects EXCEPT ![p] = @ + 1]
    /\ IF connect
         THEN /\ received' = received \cup {p}
              /\ Leave(p, "return")
              /\ UNCHANGED <<attempt, slept, files>>
         ELSE /\ attempt' = [attempt EXCEPT ![p] = @ + 1]
              /\ slept' = [slept EXCEPT ![p] = @ + SleepMs]
              /\ IF attempt[p] + 1 = MaxAttempts - 1
                   THEN /\ Leave(p, "goodbye1")
                        /\ files' = goodbye(1, files)
                   ELSE UNCHANGED <<pc, exit, locked, lockfile, files>>
              /\ UNCHANGED received
    /\ UNCHANGED <<lockRes, created, lockfile_path, inodes, child, listening,
                   initial_request>>

\* main, lines 275-282: one iteration of the retry loop; after the last
\* failed iteration the diagnostic is printed and goodbye(1) is called.
RetryConnect(p) ==
    /\ pc[p] = "retry"
    /\ attempt[p] < MaxAttempts
    /\ connects' = [connects EXCEPT ![p] = @ + 1]
    /\ IF connect
         THEN /\ received' = received \cup {p}
              /\ Leave(p, "return")
              /\ UNCHANGED <<attempt, slept, files>>
         ELSE /\ attempt' = [attempt EXCEPT ![p] = @ + 1]
              /\ slept' = [slept EXCEPT ![p] = @ + SleepMs]
              /\ IF attempt[p] + 1 = MaxAttempts
                   THEN /\ Leave(p, "goodbye1")
                        /\ files' = goodbye(1, files)
                   ELSE UNCHANGED <<pc, exit, locked, lockfile, files>>
              /\ UNCHANGED received
    /\ UNCHANGED <<lockRes, created, lockfile_path, inodes, child, listening,
                   initial_request>>

LifeNext ==
    \E p \in Clients :
        \/ FirstConnect(p)
        \/ CreateLockfile(p)
        \/ TryLock(p)
        \/ spin_up_server(p)
        \/ BackendStartup(p)
        \/ WaitChild(p)
        \/ Unlock(p)
        \/ RemoveLockfile(p)
        \/ RetryConnect(p)

LifeIdle ==
    /\ pc = [p \in Clients |-> "done"]
    /\ exit = [p \in Clients |-> "running"]
    /\ attempt = [p \in Clients |-> 0]
    /\ slept = [p \in Clients |-> 0]
    /\ lockfile = [p \in Clients |-> 0]
    /\ locked = [p \in Clients |-> FALSE]
    /\ lockRes = [p \in Clients |-> "none"]
    /\ created = [p \in Clients |-> "none"]
    /\ connects = [p \in Clients |-> 0]
    /\ lockfile_path = 0
    /\ inodes = 0
    /\ child = [p \in Clients |-> "none"]
    /\ listening = FALSE
    /\ files = {}
    /\ received = {}
    /\ initial_request = {}

(***************************************************************************)
(* text_edit.rs: text, lines and the offset translator.                    *)
(* A text is a sequence of characters; "E" stands for a character of two   *)
(* UTF-8 bytes, every other character takes one byte.                      *)
(***************************************************************************)

None == <<>>
Some(x) == <<x>>
IsSome(o) == o # None
Unwrap(o) == o[1]

Encodings == {"Utf8", "Utf16"}

RECURSIVE SeqsUpTo(_, _)
SeqsUpTo(S, n) ==
    IF n = 0 THEN {<<>>}
    ELSE LET shorter == SeqsUpTo(S, n - 1)
         IN  shorter \cup {Append(t, c) : t \in shorter, c \in S}

\* char::len_utf8
len_utf8(c) == IF c = "E" THEN 2 ELSE 1

\* RopeSlice::len_chars
len_chars(t) == Len(t)

\* RopeSlice::char_to_byte: bytes taken by the first c characters
RECURSIVE char_to_byte(_, _)
char_to_byte(t, c) ==
    IF c = 0 THEN 0 ELSE char_to_byte(t, c - 1) + len_utf8(t[c])

\* RopeSlice::len_bytes
len_bytes(t) == char_to_byte(t, Len(t))

\* RopeSlice::byte_to_char: index of the character holding byte b;
\* the character count for b = len_bytes
byte_to_char(t, b) ==
    IF b >= len_bytes(t) THEN Len(t)
    ELSE CHOOSE c \in 0..(Len(t) - 1) :
            char_to_byte(t, c) <= b /\ b < char_to_byte(t, c + 1)

\* character_to_offset_utf_8_code_points
character_to_offset_utf_8_code_points(line, character) ==
    IF character < len_chars(line) THEN Some(character) ELSE None

\* character_to_offset_utf_8_code_units that clamps instead of failing.
character_to_offset_utf_8_code_units_Clamp(line, character) ==
    IF character <= len_bytes(line)
      THEN Some(byte_to_char(line, character))
      ELSE Some(len_chars(line))

\* character_to_offset_utf_8_code_units
character_to_offset_utf_8_code_units(line, character) ==
    IF character <= len_bytes(line)
      THEN Some(byte_to_char(line, character))
      ELSE None

\* character_to_offset
character_to_offset(offset_encoding, line, character) ==
    IF offset_encoding = "Utf8"
      THEN character_to_offset_utf_8_code_units(line, character)
      ELSE character_to_offset_utf_8_code_points(line, character)

\* byte_to_offset_utf_8_code_points
byte_to_offset_utf_8_code_points(line, character) ==
    IF character < len_chars(line)
      THEN Some(char_to_byte(line, character))
      ELSE None

\* byte_to_offset_utf_8_code_units with a strict bound.
byte_to_offset_utf_8_code_units_Strict(line, character) ==
    IF character < len_bytes(line) THEN Some(character) ELSE None

\* byte_to_offset_utf_8_code_units
byte_to_offset_utf_8_code_units(line, character) ==
    IF character <= len_bytes(line) THEN Some(character) ELSE None

\* byte_to_offset
byte_to_offset(offset_encoding, line, character) ==
    IF offset_encoding = "Utf8"
      THEN byte_to_offset_utf_8_code_units(line, character)
      ELSE byte_to_offset_utf_8_code_points(line, character)

\* The lines a rope can hand out: characters, then at most one line break.
Lines ==
    LET body == SeqsUpTo({"a", "E"}, MaxLineLen)
    IN  body \cup {Append(b, "\n") : b \in body}

OffInit ==
    /\ o_pc = "input"
    /\ o_enc \in Encodings
    /\ o_line \in Lines
    /\ o_char \in 0..MaxChar
    /\ o_fwd = None
    /\ o_rev = None

OffIdle ==
    /\ o_pc = "idle" /\ o_enc = "Utf8" /\ o_line = <<>> /\ o_char = 0
    /\ o_fwd = None /\ o_rev = None

\* One call of each translation direction on the chosen input.
Translate ==
    /\ o_pc = "input"
    /\ o_fwd' = character_to_offset(o_enc, o_line, o_char)
    /\ o_rev' = byte_to_offset(o_enc, o_line, o_char)
    /\ o_pc' = "done"
    /\ UNCHANGED <<o_enc, o_line, o_char>>

(***************************************************************************)
(* text_edit.rs: apply_text_edits_to_file.                                 *)
(***************************************************************************)

\* Rope::len_lines: line breaks + 1
len_lines(t) == Cardinality({k \in 1..Len(t) : t[k] = "\n"}) + 1

\* Rope::line_to_char: characters before line i (i = len_lines is allowed)
line_to_char(t, i) ==
    IF i = 0 THEN 0
    ELSE IF i >= len_lines(t) THEN Len(t)
    ELSE CHOOSE k \in 1..Len(t) :
            /\ t[k] = "\n"
            /\ Cardinality({j \in 1..k : t[j] = "\n"}) = i

\* Rope::line: line i with its line break
line(t, i) == SubSeq(t, line_to_char(t, i) + 1, line_to_char(t, i + 1))

\* Rope::slice(a..b), character indices
slice(t, a, b) == SubSeq(t, a + 1, b)

Paths == {"file", "temp", "other"}
Modes == {420, 493}
NoFile == [exists |-> FALSE, data |-> <<>>, mode |-> 0]
OtherFile == [exists |-> TRUE, data |-> <<"a">>, mode |-> 420]

Positions == [line : 0..MaxLine, character : 0..MaxCol]
TextEdits == [range : [start : Positions, end : Positions],
              new_text : {<<>>, <<"x">>}]

Docs == SeqsUpTo({"a", "E", "\n"}, MaxTextLen)

ErrPastEndOfFile == "Text edit range extends past end of file."
ErrPastEndOfLine == "Text edit range points past end of line."
ErrIo == "io error"

PatchInit ==
    /\ f_pc = "call"
    /\ \E d \in Docs, m \in Modes :
          fs = [p \in Paths |->
                  IF p = "file" THEN [exists |-> TRUE, data |-> d, mode |-> m]
                  ELSE IF p = "other" THEN OtherFile
                  ELSE NoFile]
    /\ f_enc \in Encodings
    /\ f_n \in 0..MaxEdits
    /\ text_edits = <<>>
    /\ text = <<>>
    /\ stat_mode = 0
    /\ cursor = 0
    /\ output = <<>>
    /\ result = "none"
    /\ io_err = "none"

PatchIdle ==
    /\ f_pc = "idle"
    /\ fs = [p \in Paths |-> NoFile]
    /\ f_enc = "Utf8"
    /\ f_n = 0
    /\ text_edits = <<>>
    /\ text = <<>>
    /\ stat_mode = 0
    /\ cursor = 0
    /\ output = <<>>
    /\ result = "none"
    /\ io_err = "none"

\* lines 190-193: map_err removes the temporary file and passes the error on.
map_err(e) ==
    /\ fs' = [fs EXCEPT !["temp"] = NoFile]
    /\ result' = e
    /\ f_pc' = "done"

\* lines 95-124: stat, open and read the file, mkstemp the temporary file.
\* A failure here returns before any temporary file exists.
OpenFile ==
    /\ f_pc = "call"
    /\ \E ok \in BOOLEAN :
         IF ok
           THEN /\ stat_mode' = fs["file"].mode
                /\ text' = fs["file"].data
                /\ fs' = [fs EXCEPT !["temp"] =
                            [exists |-> TRUE, data |-> <<>>, mode |-> TempMode]]
                /\ f_pc' = "loop"
                /\ UNCHANGED <<result, io_err>>
           ELSE /\ result' = ErrIo
                /\ io_err' = "open"
                /\ f_pc' = "done"
                /\ UNCHANGED <<stat_mode, text, fs>>
    /\ UNCHANGED <<f_enc, f_n, text_edits, cursor, output>>

\* line 142: both lines of the range are lines of the document.
LinesInDocument(t, te) ==
    ~(te.range.start.line >= len_lines(t) \/ te.range.end.line >= len_lines(t))

\* lines 136-176: one iteration of the loop over text_edits.
ProcessEdit ==
    /\ f_pc = "loop"
    /\ Len(text_edits) < f_n
    /\ \E te \in TextEdits, wrote \in BOOLEAN :
         LET start == te.range.start
             end == te.range.end
             start_offset ==
                 character_to_offset(f_enc, line(text, start.line), start.character)
             end_offset ==
                 character_to_offset(f_enc, line(text, end.line), end.character)
             start_char == line_to_char(text, start.line) + Unwrap(start_offset)
             end_char == line_to_char(text, end.line) + Unwrap(end_offset)
             written == output \o slice(text, cursor, start_char) \o te.new_text
         IN  /\ text_edits' = Append(text_edits, te)
             /\ IF ~LinesInDocument(text, te)
                  THEN /\ wrote
                       /\ map_err(ErrPastEndOfFile)
                       /\ UNCHANGED <<cursor, output, io_err>>
                  ELSE IF ~IsSome(start_offset) \/ ~IsSome(end_offset)
                  THEN /\ wrote
                       /\ map_err(ErrPastEndOfLine)
                       /\ UNCHANGED <<cursor, output, io_err>>
                  ELSE IF cursor > start_char
                  THEN \* slice(cursor..start_char) panics; unwinding drops
                       \* the writer and leaves the temporary file behind
                       /\ wrote
                       /\ fs' = [fs EXCEPT !["temp"].data = output]
                       /\ result' = "panic"
                       /\ f_pc' = "done"
                       /\ UNCHANGED <<cursor, output, io_err>>
                  ELSE IF wrote
                  THEN /\ output' = written
                       /\ cursor' = end_char
                       /\ UNCHANGED <<fs, result, f_pc, io_err>>
                  ELSE \* write_all fails while it flushes the buffer
                       /\ written # <<>>
                       /\ io_err' = "write"
                       /\ map_err(ErrIo)
                       /\ UNCHANGED <<cursor, output>>
    /\ UNCHANGED <<f_enc, f_n, text, stat_mode>>

\* lines 178-182: after the last edit the tail is copied.
WriteTail ==
    /\ f_pc = "loop"
    /\ Len(text_edits) = f_n
    /\ LET written == output \o slice(text, cursor, Len(text))
       IN  \E wrote \in BOOLEAN :
             IF wrote
               THEN /\ output' = written
                    /\ f_pc' = "drop"
                    /\ UNCHANGED <<fs, result, io_err>>
               ELSE /\ written # <<>>
                    /\ io_err' = "write"
                    /\ map_err(ErrIo)
                    /\ UNCHANGED output
    /\ UNCHANGED <<f_enc, f_n, text_edits, text, stat_mode, cursor>>

\* line 183: the impl returns Ok(()) and the BufWriter goes out of scope. Its
\* Drop flushes the buffer and ignores a failure of that flush.
DropWriter ==
    /\ f_pc = "drop"
    /\ \/ /\ fs' = [fs EXCEPT !["temp"].data = output]
          /\ UNCHANGED io_err
       \/ /\ output # <<>>
          /\ \E k \in 0..(Len(output) - 1) :
                fs' = [fs EXCEPT !["temp"].data = SubSeq(output, 1, k)]
          /\ io_err' = "flush"
    /\ f_pc' = "rename"
    /\ UNCHANGED <<f_enc, f_n, text_edits, text, stat_mode, cursor, output,
                   result>>

\* line 186: std::fs::rename(temp_path, filename)
Rename ==
    /\ f_pc = "rename"
    /\ \E ok \in BOOLEAN :
         IF ok
           THEN /\ fs' = [fs EXCEPT !["file"] = fs["temp"], !["temp"] = NoFile]
                /\ f_pc' = "chmod"
                /\ UNCHANGED <<result, io_err>>
           ELSE /\ io_err' = "rename"
                /\ map_err(ErrIo)
    /\ UNCHANGED <<f_enc, f_n, text_edits, text, stat_mode, cursor, output>>

\* lines 187-189: chmod(path, stat.st_mode); the call returns Ok(()).
Chmod ==
    /\ f_pc = "chmod"
    /\ fs' = [fs EXCEPT !["file"].mode = stat_mode]
    /\ result' = "Ok"
    /\ f_pc' = "done"
    /\ UNCHANGED <<f_enc, f_n, text_edits, text, stat_mode, cursor, output,
                   io_err>>

(***************************************************************************)
(* text_edit.rs: apply_text_edits_to_buffer.                               *)
(***************************************************************************)

\* Position's derived ordering: line, then character.
PosLess(a, b) ==
    a.line < b.line \/ (a.line = b.line /\ a.character < b.character)

\* The sort key (range.start, range.end) of x is <= that of y.
KeyLeq(x, y) ==
    \/ PosLess(x.range.start, y.range.start)
    \/ /\ x.range.start = y.range.start
       /\ x.range.end = y.range.end \/ PosLess(x.range.end, y.range.end)

KeyLess(x, y) == KeyLeq(x, y) /\ x.range # y.range

\* A sort that puts an edit before the earlier edits of equal key.
sort_by_key_Unstable(es) ==
    LET before(j, i) == KeyLess(es[j], es[i])
                            \/ (es[j].range = es[i].range /\ j > i)
        rank(i) == Cardinality({j \in 1..Len(es) : before(j, i)}) + 1
    IN  [p \in 1..Len(es) |-> es[CHOOSE i \in 1..Len(es) : rank(i) = p]]

\* No sort: the edits stay in input order.
sort_by_key_Unsorted(es) == es

\* lines 277-280: Vec::sort_by_key, a stable sort: an edit comes after the
\* edits of smaller key and after the earlier edits of equal key.
sort_by_key(es) ==
    LET before(j, i) == KeyLess(es[j], es[i])
                            \/ (es[j].range = es[i].range /\ j < i)
        rank(i) == Cardinality({j \in 1..Len(es) : before(j, i)}) + 1
    IN  [p \in 1..Len(es) |-> es[CHOOSE i \in 1..Len(es) : rank(i) = p]]

\* Rope::line_to_byte (defined for line indices <= len_lines)
line_to_byte(t, i) == char_to_byte(t, line_to_char(t, i))

\* lines 288-296: Rope::get_line, then byte_to_offset on the line if any.
column(t, enc, pos) ==
    IF pos.line < len_lines(t)
      THEN byte_to_offset(enc, line(t, pos.line), pos.character)
      ELSE None

unwrap_or(o, d) == IF IsSome(o) THEN Unwrap(o) ELSE d

\* lines 292, 296: the absolute byte offset; a missing column counts as 0.
byte_offset(t, enc, pos) ==
    line_to_byte(t, pos.line) + unwrap_or(column(t, enc, pos), 0)

\* One iteration of the coalescing loop that merges whenever a previous
\* coalesced edit exists.
coalesce_step_AlwaysMerge(t, enc, acc, edit, i) ==
    LET start_offset == byte_offset(t, enc, edit.range.start)
        end_offset == byte_offset(t, enc, edit.range.end)
        n == Len(acc.coalesced_edits)
    IN  IF acc.panic # "no" THEN acc
        ELSE IF n > 0
          THEN [acc EXCEPT !.coalesced_edits[n].range.end = edit.range.end,
                           !.coalesced_edits[n].new_text = @ \o edit.new_text,
                           !.coalesced_edits[n].last = i,
                           !.coalesced_edits[n].end_offset = end_offset,
                           !.offset = end_offset]
          ELSE [acc EXCEPT !.coalesced_edits =
                               Append(@, [range |-> edit.range,
                                          new_text |-> edit.new_text,
                                          first |-> i, last |-> i,
                                          start_offset |-> start_offset,
                                          end_offset |-> end_offset]),
                           !.offset = end_offset]

\* One iteration of the coalescing loop whose merge extends the range and
\* leaves the merged edit's text out.
coalesce_step_DropText(t, enc, acc, edit, i) ==
    LET start_offset == byte_offset(t, enc, edit.range.start)
        end_offset == byte_offset(t, enc, edit.range.end)
        n == Len(acc.coalesced_edits)
    IN  IF acc.panic # "no" THEN acc
        ELSE IF edit.range.start.line > len_lines(t)
                  \/ edit.range.end.line > len_lines(t)
          THEN [acc EXCEPT !.panic = "line_to_byte"]
        ELSE IF acc.offset = start_offset /\ n > 0
          THEN IF edit.range.start # acc.coalesced_edits[n].range.end
                 THEN [acc EXCEPT !.panic = "assert"]
                 ELSE [acc EXCEPT
                         !.coalesced_edits[n].range.end = edit.range.end,
                         !.coalesced_edits[n].last = i,
                         !.coalesced_edits[n].end_offset = end_offset,
                         !.offset = end_offset]
          ELSE [acc EXCEPT !.coalesced_edits =
                               Append(@, [range |-> edit.range,
                                          new_text |-> edit.new_text,
                                          first |-> i, last |-> i,
                                          start_offset |-> start_offset,
                                          end_offset |-> end_offset]),
                           !.offset = end_offset]

\* One iteration of the coalescing loop that puts the merged edit's text in
\* front of the text gathered so far.
coalesce_step_Prepend(t, enc, acc, edit, i) ==
    LET start_offset == byte_offset(t, enc, edit.range.start)
        end_offset == byte_offset(t, enc, edit.range.end)
        n == Len(acc.coalesced_edits)
    IN  IF acc.panic # "no" THEN acc
        ELSE IF edit.range.start.line > len_lines(t)
                  \/ edit.range.end.line > len_lines(t)
          THEN [acc EXCEPT !.panic = "line_to_byte"]
        ELSE IF acc.offset = start_offset /\ n > 0
          THEN IF edit.range.start # acc.coalesced_edits[n].range.end
                 THEN [acc EXCEPT !.panic = "assert"]
                 ELSE [acc EXCEPT
                         !.coalesced_edits[n].range.end = edit.range.end,
                         !.coalesced_edits[n].new_text = edit.new_text \o @,
                         !.coalesced_edits[n].last = i,
                         !.coalesced_edits[n].end_offset = end_offset,
                         !.offset = end_offset]
          ELSE [acc EXCEPT !.coalesced_edits =
                               Append(@, [range |-> edit.range,
                                          new_text |-> edit.new_text,
                                          first |-> i, last |-> i,
                                          start_offset |-> start_offset,
                                          end_offset |-> end_offset]),
                           !.offset = end_offset]

\* lines 285-306: one iteration of the coalescing loop on the i-th sorted
\* edit. acc holds offset and coalesced_edits; each coalesced edit carries,
\* beside range and new_text, the sorted indices it covers and its byte range.
coalesce_step(t, enc, acc, edit, i) ==
    LET start_offset == byte_offset(t, enc, edit.range.start)
        end_offset == byte_offset(t, enc, edit.range.end)
        n == Len(acc.coalesced_edits)
    IN  IF acc.panic # "no" THEN acc
        ELSE IF edit.range.start.line > len_lines(t)
                  \/ edit.range.end.line > len_lines(t)
          THEN [acc EXCEPT !.panic = "line_to_byte"]
        ELSE IF acc.offset = start_offset /\ n > 0
          THEN IF edit.range.start # acc.coalesced_edits[n].range.end
                 THEN [acc EXCEPT !.panic = "assert"]
                 ELSE [acc EXCEPT
                         !.coalesced_edits[n].range.end = edit.range.end,
                         !.coalesced_edits[n].new_text = @ \o edit.new_text,
                         !.coalesced_edits[n].last = i,
                         !.coalesced_edits[n].end_offset = end_offset,
                         !.offset = end_offset]
          ELSE [acc EXCEPT !.coalesced_edits =
                               Append(@, [range |-> edit.range,
                                          new_text |-> edit.new_text,
                                          first |-> i, last |-> i,
                                          start_offset |-> start_offset,
                                          end_offset |-> end_offset]),
                           !.offset = end_offset]

\* lines 282-306: the loop over the sorted edits.
RECURSIVE coalesce(_, _, _, _)
coalesce(t, enc, sorted, i) ==
    IF i = 0
      THEN [offset |-> 0, coalesced_edits |-> <<>>, panic |-> "no"]
      ELSE CHOOSE r \in {coalesce_step(t, enc, acc, sorted[i], i) :
                             acc \in {coalesce(t, enc, sorted, i - 1)}} : TRUE

\* str::as_bytes: the character "E" takes the two bytes "E1", "E2".
RECURSIVE as_bytes(_)
as_bytes(t) ==
    IF t = <<>> THEN <<>>
    ELSE (IF t[1] = "E" THEN <<"E1", "E2">> ELSE <<t[1]>>) \o as_bytes(Tail(t))

\* The filter that also drops a multi-line edit equal to the text it covers.
keep_DropMultiline(t, enc, e) ==
    IF e.start_offset <= e.end_offset
         /\ as_bytes(e.new_text)
               = SubSeq(as_bytes(t), e.start_offset + 1, e.end_offset)
      THEN "drop" ELSE "keep"

\* lines 310-336: the filter closure: "keep", "drop" (redundant) or "panic".
keep(t, enc, e) ==
    IF e.range.start.line # e.range.end.line THEN "keep"
    ELSE IF e.range.start.line >= len_lines(t) THEN "panic"
    ELSE LET ln == line(t, e.range.start.line)
             start_byte == byte_to_offset(enc, ln, e.range.start.character)
             end_byte == byte_to_offset(enc, ln, e.range.end.character)
         IN  IF ~IsSome(start_byte) \/ ~IsSome(end_byte) THEN "panic"
             ELSE IF Unwrap(end_byte) < Unwrap(start_byte) THEN "panic"
             ELSE IF as_bytes(e.new_text)
                        = SubSeq(as_bytes(ln), Unwrap(start_byte) + 1,
                                 Unwrap(end_byte))
                    THEN "drop" ELSE "keep"

SentinelColumn == 1000000

\* position.rs, lsp_range_to_kakoune: 1-based line and byte column of both
\* ends; an insert selects the character at its position, a range ending at
\* the beginning of a line ends at the sentinel column of the line before.
lsp_range_to_kakoune(range, t, enc) ==
    LET col(pos) == IF enc = "Utf16" /\ pos.line < len_lines(t)
                      THEN IF pos.character <= len_chars(line(t, pos.line))
                             THEN char_to_byte(line(t, pos.line), pos.character)
                             ELSE len_bytes(line(t, pos.line))
                      ELSE pos.character
        insert == range.start = range.end
        bol == col(range.end) = 0
    IN  [start |-> [line |-> range.start.line + 1,
                    column |-> col(range.start) + 1],
         end |-> IF insert
                   THEN [line |-> range.start.line + 1,
                         column |-> col(range.start) + 1]
                 ELSE IF bol
                   THEN [line |-> range.end.line, column |-> SentinelColumn]
                   ELSE [line |-> range.end.line + 1,
                         column |-> col(range.end)]]

\* lsp_text_edit_to_kakoune that tells an insert by the characters alone.
lsp_text_edit_to_kakoune_CharOnly(text_edit, t, enc) ==
    [range |-> lsp_range_to_kakoune(text_edit.range, t, enc),
     new_text |-> text_edit.new_text,
     command |-> IF text_edit.range.start.character
                       = text_edit.range.end.character
                   THEN "InsertBefore" ELSE "Replace"]

\* lines 440-462: lsp_text_edit_to_kakoune
lsp_text_edit_to_kakoune(text_edit, t, enc) ==
    LET start == text_edit.range.start
        end == text_edit.range.end
        insert == start.line = end.line /\ start.character = end.character
    IN  [range |-> lsp_range_to_kakoune(text_edit.range, t, enc),
         new_text |-> text_edit.new_text,
         command |-> IF insert THEN "InsertBefore" ELSE "Replace"]

\* lines 308-338: filter, then map to KakouneTextEdit, in order.
RECURSIVE collect(_, _, _)
collect(t, enc, ces) ==
    IF ces = <<>> THEN <<>>
    ELSE LET rest == collect(t, enc, Tail(ces))
         IN  IF keep(t, enc, ces[1]) = "keep"
               THEN <<lsp_text_edit_to_kakoune(ces[1], t, enc)>> \o rest
               ELSE rest

\* Itertools::dedup: consecutive equal elements collapse into one.
RECURSIVE dedup(_)
dedup(q) ==
    IF Len(q) <= 1 THEN q
    ELSE LET rest == dedup(Tail(q))
         IN  IF q[1] = rest[1] THEN rest ELSE <<q[1]>> \o rest

\* lines 340-344: selection_descs
selection_descs(edits) == dedup([i \in 1..Len(edits) |-> edits[i].range])

\* Commands that count the selections from 1.
apply_edits_OneBased(edits) ==
    [i \in 1..Len(edits) |->
        [select |-> i,
         command |-> IF edits[i].command = "InsertBefore"
                       THEN "lsp-insert-before-selection"
                       ELSE "lsp-replace-selection",
         new_text |-> edits[i].new_text]]

\* lines 346-374: apply_edits; the i-th edit (from 0) restores the saved
\* selections and picks selection i.
apply_edits(edits) ==
    [i \in 1..Len(edits) |->
        [select |-> i - 1,
         command |-> IF edits[i].command = "InsertBefore"
                       THEN "lsp-insert-before-selection"
                       ELSE "lsp-replace-selection",
         new_text |-> edits[i].new_text]]

\* A caller that sends an eval of nothing where it should send "nop".
Nop_EmptyEval == [kind |-> "eval -draft", edit_existing |-> FALSE,
                  select |-> <<>>, apply_edits |-> <<>>]

\* text_edit.rs line 83: the command sent when there is no script.
Nop == [kind |-> "nop", edit_existing |-> FALSE, select |-> <<>>,
        apply_edits |-> <<>>]

\* A script builder that answers "nop" when no edit is left.
script_NopIfEmpty(edits, has_client, has_buffile) ==
    [kind |-> IF edits = <<>> THEN "nop"
              ELSE IF has_client THEN "eval -client"
              ELSE IF has_buffile THEN "eval -buffer" ELSE "eval -draft",
     edit_existing |-> edits # <<>> /\ has_client /\ has_buffile,
     select |-> selection_descs(edits),
     apply_edits |-> apply_edits(edits)]

\* lines 376-425: the script: the select line (only if there are
\* selections), the edit commands, and the eval wrapper chosen by client
\* and buffile.
script(edits, has_client, has_buffile) ==
    [kind |-> IF has_client THEN "eval -client"
              ELSE IF has_buffile THEN "eval -buffer" ELSE "eval -draft",
     edit_existing |-> has_client /\ has_buffile,
     select |-> selection_descs(edits),
     apply_edits |-> apply_edits(edits)]

WellFormedRanges ==
    {r \in [start : Positions, end : Positions] :
        r.start = r.end \/ PosLess(r.start, r.end)}

BufEdits == [range : WellFormedRanges, new_text : {<<"a">>, <<"\n">>}]

BufInit ==
    /\ b_pc = "input"
    /\ b_text \in Docs
    /\ b_enc \in Encodings
    /\ b_input \in SeqsUpTo(BufEdits, MaxEdits)
    /\ b_sorted = <<>>
    /\ b_coalesced = <<>>
    /\ b_edits = <<>>
    /\ b_result = None
    /\ b_panic = "no"
    /\ b_exec = None

BufIdle ==
    /\ b_pc = "idle"
    /\ b_text = <<>>
    /\ b_enc = "Utf8"
    /\ b_input = <<>>
    /\ b_sorted = <<>>
    /\ b_coalesced = <<>>
    /\ b_edits = <<>>
    /\ b_result = None
    /\ b_panic = "no"
    /\ b_exec = None

\* lines 267-338 (and 80-84 for the empty list): sort, coalesce, filter, map.
Normalize ==
    /\ b_pc = "input"
    /\ IF b_input = <<>>
         THEN \* line 270 returns None; the caller sends "nop"
              /\ b_result' = None
              /\ b_exec' = Some(Nop)
              /\ b_pc' = "done"
              /\ UNCHANGED <<b_sorted, b_coalesced, b_edits, b_panic>>
         ELSE \E sorted \in {sort_by_key(b_input)} :
              \E acc \in {coalesce(b_text, b_enc, sorted, Len(sorted))} :
              LET ces == acc.coalesced_edits
                  filter_panics ==
                      \E i \in 1..Len(ces) : keep(b_text, b_enc, ces[i]) = "panic"
              IN  /\ b_sorted' = sorted
                  /\ IF acc.panic # "no"
                       THEN /\ b_panic' = acc.panic
                            /\ b_pc' = "done"
                            /\ UNCHANGED <<b_coalesced, b_edits>>
                       ELSE IF filter_panics
                       THEN /\ b_panic' = "filter"
                            /\ b_coalesced' = ces
                            /\ b_pc' = "done"
                            /\ UNCHANGED b_edits
                       ELSE /\ b_coalesced' = ces
                            /\ b_edits' = collect(b_text, b_enc, ces)
                            /\ b_pc' = "normalized"
                            /\ UNCHANGED b_panic
                  /\ UNCHANGED <<b_result, b_exec>>
    /\ UNCHANGED <<b_text, b_enc, b_input>>

\* lines 340-425 and 80: build the script, return it, hand it to ctx.exec.
Emit ==
    /\ b_pc = "normalized"
    /\ \E has_client \in BOOLEAN, has_buffile \in BOOLEAN :
         /\ b_result' = Some(script(b_edits, has_client, has_buffile))
         /\ b_exec' = Some(script(b_edits, has_client, has_buffile))
    /\ b_pc' = "done"
    /\ UNCHANGED <<b_text, b_enc, b_input, b_sorted, b_coalesced, b_edits,
                   b_panic>>

(***************************************************************************)
(* main.rs: the backend's exit and the session names.                      *)
(***************************************************************************)

ExitCodes == 0..MaxCode

ExitIdle ==
    /\ exit_code = [p \in Clients |-> None]
    /\ warned = {}

\* main, line 314: controller::start returns a code and the backend spawned
\* by p leaves through goodbye. A remove_file that fails is only warned
\* about (lines 513-518) and leaves its file behind.
BackendExit(p) ==
    /\ child[p] = "running"
    /\ \E code \in ExitCodes :
         \E failed \in SUBSET (files \ goodbye(code, files)) :
             /\ files' = goodbye(code, files) \cup failed
             /\ warned' = failed
             /\ exit_code' = [exit_code EXCEPT ![p] = Some(code)]
    /\ child' = [child EXCEPT ![p] = "exited"]
    /\ listening' = \E q \in Clients \ {p} : child[q] = "running"
    /\ UNCHANGED <<pc, exit, attempt, slept, lockfile, locked, lockRes,
                   created, connects, lockfile_path, inodes, received,
                   initial_request>>

Names == SeqsUpTo({"a", "b"}, MaxNameLen)

NotPresent == [kind |-> "NotPresent", value |-> <<>>]
NotUnicode == [kind |-> "NotUnicode", value |-> <<>>]
Ok(value) == [kind |-> "Ok", value |-> value]

StartInit ==
    /\ m_pc = "start"
    /\ kak_session \in {NotPresent, NotUnicode} \cup {Ok(n) : n \in Names}
    /\ arg_session \in {None} \cup {Some(n) : n \in Names}
    /\ env_session = None
    /\ session = <<>>
    /\ lsp_session = <<>>
    /\ m_exit = None

StartIdle ==
    /\ m_pc = "idle"
    /\ kak_session = NotPresent
    /\ arg_session = None
    /\ env_session = None
    /\ session = <<>>
    /\ lsp_session = <<>>
    /\ m_exit = None

\* Option::or
or(a, b) == IF IsSome(a) THEN a ELSE b

\* main, lines 319-330: env_var("kak_session")
env_var ==
    /\ m_pc = "start"
    /\ IF kak_session.kind = "NotUnicode"
         THEN /\ m_pc' = "exited"
              /\ m_exit' = Some(1)
              /\ UNCHANGED env_session
         ELSE /\ m_pc' = "env"
              /\ env_session' = IF kak_session.kind = "Ok"
                                  THEN Some(kak_session.value) ELSE None
              /\ UNCHANGED m_exit
    /\ UNCHANGED <<kak_session, arg_session, session, lsp_session>>

\* main, lines 171-185: both absent exits 1; the names are built with
\* Option::or; an empty lsp_session exits 1.
Validate ==
    /\ m_pc = "env"
    /\ IF ~IsSome(arg_session) /\ ~IsSome(env_session)
         THEN /\ m_pc' = "exited"
              /\ m_exit' = Some(1)
              /\ UNCHANGED <<session, lsp_session>>
         ELSE /\ session' = Unwrap(or(env_session, arg_session))
              /\ lsp_session' = Unwrap(or(arg_session, env_session))
              /\ IF lsp_session' = <<>>
                   THEN m_pc' = "exited" /\ m_exit' = Some(1)
                   ELSE m_pc' = "validated" /\ UNCHANGED m_exit
    /\ UNCHANGED <<kak_session, arg_session, env_session>>

(***************************************************************************)
(* main.rs: the raw request on its two routes to the backend               *)
(***************************************************************************)
\* The bytes a request is made of: an ASCII byte, the lead and the
\* continuation byte of a two-byte UTF-8 sequence, and a byte that occurs in
\* no UTF-8 sequence.
Bytes == {"61", "C3", "A9", "FF"}

Requests == SeqsUpTo(Bytes, MaxReqLen)

\* U+FFFD REPLACEMENT CHARACTER in UTF-8
REPLACEMENT == <<"EF", "BF", "BD">>

\* String::from_utf8_lossy(..).to_string(), as the UTF-8 bytes of the String:
\* valid sequences are kept, every byte that starts no valid sequence becomes
\* U+FFFD.
RECURSIVE from_utf8_lossy(_)
from_utf8_lossy(v) ==
    IF v = <<>> THEN <<>>
    ELSE IF v[1] = "61" THEN <<"61">> \o from_utf8_lossy(Tail(v))
    ELSE IF v[1] = "C3" /\ Len(v) >= 2 /\ v[2] = "A9"
      THEN <<"C3", "A9">> \o from_utf8_lossy(Tail(Tail(v)))
    ELSE REPLACEMENT \o from_utf8_lossy(Tail(v))

ReqInit ==
    /\ q_pc = "start"
    /\ q_stdin \in Requests
    /\ raw_request = <<>>
    /\ socket = <<>>
    /\ child_stdin = <<>>
    /\ backend_raw_request = <<>>
    /\ backend_initial_request = None

ReqIdle ==
    /\ q_pc = "idle"
    /\ q_stdin = <<>>
    /\ raw_request = <<>>
    /\ socket = <<>>
    /\ child_stdin = <<>>
    /\ backend_raw_request = <<>>
    /\ backend_initial_request = None

\* main, lines 186-192: the client reads its stdin to the end
ReadStdin ==
    /\ q_pc = "start"
    /\ raw_request' = q_stdin
    /\ q_pc' = "read"
    /\ UNCHANGED <<q_stdin, socket, child_stdin, backend_raw_request,
                   backend_initial_request>>

\* main, lines 245-256: connect succeeded, write_all(&raw_request)
ConnectWrite ==
    /\ q_pc = "read"
    /\ socket' = socket \o raw_request
    /\ q_pc' = "connected"
    /\ UNCHANGED <<q_stdin, raw_request, child_stdin, backend_raw_request,
                   backend_initial_request>>

\* spin_up_server, lines 457-462: write_all(raw_request) to the child's stdin
WriteChildStdin ==
    /\ q_pc = "read"
    /\ child_stdin' = child_stdin \o raw_request
    /\ q_pc' = "spawned"
    /\ UNCHANGED <<q_stdin, raw_request, socket, backend_raw_request,
                   backend_initial_request>>

\* main, lines 186-192, in the spawned backend (--initial-request)
BackendReadStdin ==
    /\ q_pc = "spawned"
    /\ backend_raw_request' = child_stdin
    /\ q_pc' = "backend_read"
    /\ UNCHANGED <<q_stdin, raw_request, socket, child_stdin,
                   backend_initial_request>>

\* main, lines 286-290, in the spawned backend
InitialRequest ==
    /\ q_pc = "backend_read"
    /\ backend_initial_request' = Some(from_utf8_lossy(backend_raw_request))
    /\ q_pc' = "consumed"
    /\ UNCHANGED <<q_stdin, raw_request, socket, child_stdin,
                   backend_raw_request>>

RequestInit ==
    LifeIdle /\ OffIdle /\ PatchIdle /\ BufIdle /\ ExitIdle /\ StartIdle
    /\ ReqInit

RequestNext ==
    /\ \/ ReadStdin
       \/ ConnectWrite
       \/ WriteChildStdin
       \/ BackendReadStdin
       \/ InitialRequest
    /\ UNCHANGED <<lifeVars, offVars, patchVars, bufVars, exitVars, startVars>>

RequestSpec == RequestInit /\ [][RequestNext]_vars

BufferInit ==
    LifeIdle /\ OffIdle /\ PatchIdle /\ BufInit /\ ExitIdle /\ StartIdle
    /\ ReqIdle

BufferNext ==
    /\ Normalize \/ Emit
    /\ UNCHANGED <<lifeVars, offVars, patchVars, exitVars, startVars,
                 reqVars>>

BufferSpec == BufferInit /\ [][BufferNext]_vars

PatchInitAll ==
    LifeIdle /\ OffIdle /\ PatchInit /\ BufIdle /\ ExitIdle /\ StartIdle
    /\ ReqIdle

PatchNext ==
    /\ \/ OpenFile
       \/ ProcessEdit
       \/ WriteTail
       \/ DropWriter
       \/ Rename
       \/ Chmod
    /\ UNCHANGED <<lifeVars, offVars, bufVars, exitVars, startVars,
                 reqVars>>

PatchSpec == PatchInitAll /\ [][PatchNext]_vars

Init == LifeInit /\ OffIdle /\ PatchIdle /\ BufIdle /\ ExitIdle /\ StartIdle
    /\ ReqIdle

Next ==
    LifeNext /\ UNCHANGED <<offVars, patchVars, bufVars, exitVars, startVars,
                 reqVars>>

Spec == Init /\ [][Next]_vars

\* The steps invocation p takes itself.
ClientStep(p) ==
    /\ \/ FirstConnect(p)
       \/ CreateLockfile(p)
       \/ TryLock(p)
       \/ spin_up_server(p)
       \/ WaitChild(p)
       \/ Unlock(p)
       \/ RemoveLockfile(p)
       \/ RetryConnect(p)
    /\ UNCHANGED <<offVars, patchVars, bufVars, exitVars, startVars, reqVars>>

\* The step of the process p spawned.
ChildStep(p) ==
    /\ BackendStartup(p)
    /\ UNCHANGED <<offVars, patchVars, bufVars, exitVars, startVars, reqVars>>

\* Spec with every process scheduled: an invocation that can take a step
\* takes it (its system calls return, sleep(30 ms) ends), and so does the
\* process it spawned.
LiveSpec ==
    /\ Init
    /\ [][Next]_vars
    /\ \A p \in Clients : WF_vars(ClientStep(p)) /\ WF_vars(ChildStep(p))

OffsetInit ==
    LifeIdle /\ OffInit /\ PatchIdle /\ BufIdle /\ ExitIdle /\ StartIdle
    /\ ReqIdle

OffsetNext ==
    /\ Translate
    /\ UNCHANGED <<lifeVars, patchVars, bufVars, exitVars, startVars,
                 reqVars>>

\* The invocations of Spec together with the exits of the backends they
\* spawned.
ExitNext ==
    /\ \/ LifeNext /\ UNCHANGED exitVars
       \/ \E p \in Clients : BackendExit(p)
    /\ UNCHANGED <<offVars, patchVars, bufVars, startVars,
                 reqVars>>

ExitSpec == Init /\ [][ExitNext]_vars

StartInitAll ==
    LifeIdle /\ OffIdle /\ PatchIdle /\ BufIdle /\ ExitIdle /\ StartInit
    /\ ReqIdle

StartNext ==
    /\ env_var \/ Validate
    /\ UNCHANGED <<lifeVars, offVars, patchVars, bufVars, exitVars, reqVars>>

StartSpec == StartInitAll /\ [][StartNext]_vars

OffsetSpec == OffsetInit /\ [][OffsetNext]_vars

(***************************************************************************)
(* Claims about the daemon lifecycle coordinator.                          *)
(***************************************************************************)

Spawners == {p \in Clients : child[p] # "none"}

\* A filesystem call of the invocation failed: File::create, a lock attempt
\* for a reason other than contention, or unlock.
EnvError(p) ==
    \/ created[p] = "err"
    \/ lockRes[p] = "error"
    \/ lockRes[p] = "ok" /\ exit[p] = "goodbye1"

NoEnvError == \A p \in Clients : ~EnvError(p)

\* C1: among the invocations racing against a fresh session (no filesystem
\* call failing) at most one acquires the lock and spawns a backend.
C1_OneBackend == NoEnvError => Cardinality(Spawners) <= 1

\* C2 (as claimed): an invocation that did not spawn a backend and met no
\* filesystem error never ends in Failed: it has returned after writing its
\* request to the control socket.
C2_NoLoserFails ==
    \A p \in Clients :
        (pc[p] = "done" /\ child[p] = "none" /\ created[p] # "err"
                        /\ lockRes[p] # "error")
            => (exit[p] = "return" /\ p \in received)

\* C2 (amended): an invocation that did not spawn a backend ends either
\* Delivered, its request written to the control socket, or Failed after a
\* lock-file creation error or after all MaxAttempts retries failed.
C2_LoserDeliversOrExhausts ==
    \A p \in Clients :
        (pc[p] = "done" /\ child[p] = "none")
            => \/ exit[p] = "return" /\ p \in received
               \/ /\ exit[p] = "goodbye1"
                  /\ p \notin received
                  /\ created[p] = "err" \/ attempt[p] = MaxAttempts

C2_Witness ==
    \E p, q \in Clients :
        /\ pc[p] = "done" /\ child[p] = "none" /\ exit[p] = "return"
        /\ attempt[p] > 0
        /\ pc[q] = "done" /\ child[q] = "none" /\ exit[q] = "goodbye1"
        /\ lockRes[q] = "contended"

\* C3: at most one process holds the advisory lock of the session's
\* lock-file path.
C3_OneHolder == NoEnvError => Cardinality({p \in Clients : locked[p]}) <= 1

\* C4: after a contended lock attempt the invocation retries the connect at
\* most MaxAttempts times, SleepMs apart; it returns at the first successful
\* connect and gives up only after MaxAttempts failures.
C4_BoundedRetry ==
    \A p \in Clients :
        lockRes[p] = "contended" =>
            /\ attempt[p] <= MaxAttempts
            /\ slept[p] = SleepMs * attempt[p]
            /\ pc[p] = "retry" => (attempt[p] < MaxAttempts
                                      /\ connects[p] = attempt[p] + 1)
            /\ pc[p] = "done" => exit[p] \in {"return", "goodbye1"}
            /\ exit[p] = "goodbye1" =>
                   (attempt[p] = MaxAttempts /\ connects[p] = MaxAttempts + 1)
            /\ exit[p] = "return" =>
                   (attempt[p] < MaxAttempts /\ connects[p] = attempt[p] + 2
                      /\ p \in received)

C4_Witness ==
    \E p, q \in Clients :
        /\ lockRes[p] = "contended" /\ exit[p] = "goodbye1"
        /\ lockRes[q] = "contended" /\ exit[q] = "return" /\ attempt[q] > 0

\* C5: the invocation that acquired the lock holds it until the wait on the
\* child has returned, then unlocks, then deletes the lock file, and (its
\* unlock having succeeded) ends by returning.
C5_WinnerDelivered ==
    \A p \in Clients :
        (NoEnvError /\ lockRes[p] = "ok") =>
            /\ pc[p] \in {"spawn", "wait", "unlock"} => locked[p]
            /\ pc[p] = "unlock" => child[p] = "running"
            /\ pc[p] = "remove" => (~locked[p] /\ child[p] = "running")
            /\ pc[p] = "done" => exit[p] \in {"return", "goodbye1"}

\* C6: an invocation whose first connect succeeded has written its request
\* and returned without creating the lock file, trying the lock or spawning.
C6_FirstConnectDelivers ==
    \A p \in Clients :
        (p \in received /\ connects[p] = 1) =>
            /\ pc[p] = "done" /\ exit[p] = "return"
            /\ created[p] = "none" /\ lockRes[p] = "none"
            /\ lockfile[p] = 0 /\ ~locked[p]
            /\ child[p] = "none" /\ attempt[p] = 0

C6_Witness ==
    \E p \in Clients :
        /\ p \in received /\ connects[p] = 1 /\ pc[p] = "done"
        /\ lockfile_path # 0

(***************************************************************************)
(* Claims about the offset translator.                                     *)
(***************************************************************************)

\* C10: under OffsetEncoding::Utf16 both translation directions return a
\* value exactly for the character indices <= the line's character count.
C10_CodePointValid ==
    (o_pc = "done" /\ o_enc = "Utf16") =>
        /\ IsSome(o_fwd) <=> o_char <= len_chars(o_line)
        /\ IsSome(o_rev) <=> o_char <= len_chars(o_line)

\* C11: under OffsetEncoding::Utf8 the character index is a byte offset;
\* both translation directions return a value exactly for the indices <= the
\* line's byte length, the reverse direction returning the index itself.
C11_CodeUnitValid ==
    (o_pc = "done" /\ o_enc = "Utf8") =>
        /\ IsSome(o_fwd) <=> o_char <= len_bytes(o_line)
        /\ IsSome(o_rev) <=> o_char <= len_bytes(o_line)
        /\ IsSome(o_rev) => Unwrap(o_rev) = o_char
        /\ IsSome(o_fwd) =>
              /\ Unwrap(o_fwd) <= len_chars(o_line)
              /\ char_to_byte(o_line, Unwrap(o_fwd)) <= o_char

C11_Witness ==
    /\ o_pc = "done" /\ o_enc = "Utf8"
    /\ o_char = len_bytes(o_line)
    /\ len_bytes(o_line) > len_chars(o_line)
    /\ IsSome(o_fwd) /\ IsSome(o_rev)

(***************************************************************************)
(* Claims about the file patcher.                                          *)
(***************************************************************************)

\* The largest valid character index of a line: its character count under
\* Utf16 (code points), its byte length under Utf8 (code units).
CharacterBound(enc, ln) ==
    IF enc = "Utf16" THEN len_chars(ln) ELSE len_bytes(ln)

InBounds(t, enc, pos) ==
    /\ pos.line < len_lines(t)
    /\ pos.character <= CharacterBound(enc, line(t, pos.line))

EditInBounds(t, enc, te) ==
    InBounds(t, enc, te.range.start) /\ InBounds(t, enc, te.range.end)

\* The character index a position denotes in the text.
CharIndex(t, enc, pos) ==
    line_to_char(t, pos.line) +
        (IF enc = "Utf16" THEN pos.character
         ELSE byte_to_char(line(t, pos.line), pos.character))

\* Left to right, without overlap.
Ordered(t, enc, edits) ==
    \A i \in 1..Len(edits) :
        /\ CharIndex(t, enc, edits[i].range.start)
              <= CharIndex(t, enc, edits[i].range.end)
        /\ i > 1 => CharIndex(t, enc, edits[i - 1].range.end)
                       <= CharIndex(t, enc, edits[i].range.start)

\* The splice: each range of the original text replaced by its new_text,
\* computed from the rightmost edit to the leftmost.
RECURSIVE SpliceFrom(_, _, _, _)
SpliceFrom(orig, cur, enc, edits) ==
    IF edits = <<>> THEN cur
    ELSE LET te == edits[Len(edits)]
             s == CharIndex(orig, enc, te.range.start)
             e == CharIndex(orig, enc, te.range.end)
         IN  SpliceFrom(orig,
                        SubSeq(cur, 1, s) \o te.new_text
                            \o SubSeq(cur, e + 1, Len(cur)),
                        enc, SubSeq(edits, 1, Len(edits) - 1))

Splice(t, enc, edits) == SpliceFrom(t, t, enc, edits)

Errors == {ErrPastEndOfFile, ErrPastEndOfLine, ErrIo}

\* C7: for an in-bounds, left-to-right, non-overlapping edit list (no system
\* call failing) the call returns Ok, the file holds the splice of its
\* original content, keeps its permission bits, and no other path changed.
C7_PatchRoundTrip ==
    (/\ f_pc = "done" /\ io_err = "none"
     /\ \A i \in 1..Len(text_edits) : EditInBounds(text, f_enc, text_edits[i])
     /\ Ordered(text, f_enc, text_edits))
        => /\ result = "Ok"
           /\ Len(text_edits) = f_n
           /\ fs["file"] = [exists |-> TRUE,
                             data |-> Splice(text, f_enc, text_edits),
                             mode |-> stat_mode]
           /\ fs["other"] = OtherFile
           /\ fs["temp"] = NoFile

\* C8: once the temporary file exists, a failing call removes it and leaves
\* the file as it was, and the file never holds anything but its original
\* content or the complete output.
C8_NoPartialWrite ==
    (f_pc \notin {"idle", "call"} /\ io_err # "open") =>
        /\ \/ fs["file"].data = text
           \/ f_pc \in {"chmod", "done"} /\ fs["file"].data = output
        /\ result \in Errors =>
              /\ fs["temp"] = NoFile
              /\ fs["file"] = [exists |-> TRUE, data |-> text,
                                mode |-> stat_mode]

\* C9: an edit with a line index >= the line count or a character index
\* beyond its line's bound ends the call at that edit with the matching
\* error; the file is untouched and the temporary file is gone.
C9_OutOfBoundsAborts ==
    \A i \in 1..Len(text_edits) :
        ~EditInBounds(text, f_enc, text_edits[i]) =>
            /\ i = Len(text_edits)
            /\ f_pc = "done"
            /\ result = IF LinesInDocument(text, text_edits[i])
                          THEN ErrPastEndOfLine ELSE ErrPastEndOfFile
            /\ fs["file"] = [exists |-> TRUE, data |-> text,
                              mode |-> stat_mode]
            /\ fs["temp"] = NoFile
            /\ fs["other"] = OtherFile

C9_Witness ==
    /\ f_pc = "done"
    /\ result = ErrPastEndOfLine
    /\ Len(text_edits) = 2
    /\ output # <<>>
    /\ f_enc = "Utf8"
    /\ ~EditInBounds(text, f_enc, text_edits[2])

\* Sanity: the round trip of C7 for the Utf8 encoding alone.
PatchRoundTripUtf8 == f_enc = "Utf8" => C7_PatchRoundTrip

(***************************************************************************)
(* Claims about the buffer path.                                           *)
(***************************************************************************)

\* The coalescing loop of lines 285-306 ran to its end.
Coalesced ==
    /\ b_pc \in {"normalized", "done"}
    /\ b_input # <<>>
    /\ b_panic \notin {"assert", "line_to_byte"}

\* The call returned a script.
Returned == b_pc = "done" /\ b_input # <<>> /\ b_panic = "no"

RECURSIVE ConcatText(_, _, _)
ConcatText(es, i, j) ==
    IF i > j THEN <<>> ELSE es[i].new_text \o ConcatText(es, i + 1, j)

PosLeq(a, b) == a = b \/ PosLess(a, b)

\* No two edits of the batch overlap (what LSP asks of a batch).
NonOverlapping(es) ==
    \A i, j \in 1..Len(es) :
        i # j => \/ PosLeq(es[i].range.end, es[j].range.start)
                 \/ PosLeq(es[j].range.end, es[i].range.start)

SameCoalesced(i, j) ==
    \E k \in 1..Len(b_coalesced) :
        /\ b_coalesced[k].first <= i /\ i <= b_coalesced[k].last
        /\ b_coalesced[k].first <= j /\ j <= b_coalesced[k].last

RECURSIVE TextsAt(_, _)
TextsAt(es, r) ==
    IF es = <<>> THEN <<>>
    ELSE (IF es[1].range = r THEN <<es[1].new_text>> ELSE <<>>)
             \o TextsAt(Tail(es), r)

\* C13: the sorted batch is ascending by (start, end), line-major; the edits
\* of one (start, end) keep their input order; and zero-width inserts at one
\* point sit next to each other, so that they are coalesced into one edit
\* that carries their texts in input order.
C13_StableSort ==
    (b_pc \in {"normalized", "done"} /\ b_input # <<>>) =>
        /\ Len(b_sorted) = Len(b_input)
        /\ \A i \in 2..Len(b_sorted) : KeyLeq(b_sorted[i - 1], b_sorted[i])
        /\ \A r \in WellFormedRanges :
               TextsAt(b_sorted, r) = TextsAt(b_input, r)
        /\ \A i, j \in 1..Len(b_sorted) :
               (/\ i < j
                /\ b_sorted[i].range = b_sorted[j].range
                /\ b_sorted[i].range.start = b_sorted[i].range.end)
               => /\ \A m \in i..j : b_sorted[m].range = b_sorted[i].range
                  /\ Coalesced => SameCoalesced(i, j)

C13_Witness ==
    /\ Returned
    /\ Len(b_input) = 2
    /\ b_input[1].range = b_input[2].range
    /\ b_input[1].range.start = b_input[1].range.end
    /\ b_input[1].new_text = <<"\n">> /\ b_input[2].new_text = <<"a">>
    /\ Len(Unwrap(b_exec).apply_edits) = 1
    /\ Unwrap(b_exec).apply_edits[1].new_text = <<"\n", "a">>
    /\ Unwrap(b_exec).apply_edits[1].command = "lsp-insert-before-selection"

\* The replacement text of a single-line coalesced edit equals the bytes its
\* range covers in the buffer.
Redundant(c) ==
    /\ c.range.start.line = c.range.end.line
    /\ c.start_offset <= c.end_offset
    /\ as_bytes(c.new_text)
           = SubSeq(as_bytes(b_text), c.start_offset + 1, c.end_offset)

RECURSIVE Survivors(_)
Survivors(ces) ==
    IF ces = <<>> THEN <<>>
    ELSE (IF Redundant(ces[1]) THEN <<>> ELSE <<ces[1]>>)
             \o Survivors(Tail(ces))

\* C14: the script has one command per coalesced edit that is not redundant,
\* in order and with that edit's text, and none for a redundant single-line
\* edit; if all are redundant nothing is selected; a multi-line edit always
\* has its command, whatever its text.
C14_RedundancyFilter ==
    Returned =>
        LET sv == Survivors(b_coalesced)
            sc == Unwrap(b_exec)
        IN  /\ Len(sc.apply_edits) = Len(sv)
            /\ \A i \in 1..Len(sv) :
                   sc.apply_edits[i].new_text = sv[i].new_text
            /\ Len(sc.select) <= Len(sv)
            /\ \A k \in 1..Len(b_coalesced) :
                   b_coalesced[k].range.start.line
                       # b_coalesced[k].range.end.line
                   => \E i \in 1..Len(sv) : sv[i] = b_coalesced[k]

C14_Witness ==
    /\ Returned
    /\ Len(b_coalesced) = 2
    /\ Redundant(b_coalesced[1]) /\ ~Redundant(b_coalesced[2])
    /\ b_coalesced[1].range.start # b_coalesced[1].range.end
    /\ Len(Unwrap(b_exec).apply_edits) = 1
    /\ Len(Unwrap(b_exec).select) = 1

\* A multi-line edit equal to the text it covers, kept.
MultilineKept ==
    /\ Returned
    /\ Len(b_coalesced) = 1
    /\ b_coalesced[1].range.start.line # b_coalesced[1].range.end.line
    /\ as_bytes(b_coalesced[1].new_text)
           = SubSeq(as_bytes(b_text), b_coalesced[1].start_offset + 1,
                    b_coalesced[1].end_offset)
    /\ Len(Unwrap(b_exec).apply_edits) = 1

\* Every position of the batch is on a line of the buffer and has a column
\* byte_to_offset accepts.
Translatable(pos) ==
    /\ pos.line < len_lines(b_text)
    /\ IsSome(byte_to_offset(b_enc, line(b_text, pos.line), pos.character))

BatchTranslatable ==
    \A i \in 1..Len(b_input) :
        Translatable(b_input[i].range.start)
            /\ Translatable(b_input[i].range.end)

DisjointInOrder(sv) ==
    \A i, j \in 1..Len(sv) :
        i < j => /\ sv[i].start_offset <= sv[i].end_offset
                 /\ sv[i].end_offset <= sv[j].start_offset
                 /\ sv[j].start_offset <= sv[j].end_offset

\* C15 as stated: for every batch, the byte ranges of any two edits that
\* survive normalization are disjoint and in left-to-right order.
C15_DisjointInOrder ==
    Returned => DisjointInOrder(Survivors(b_coalesced))

\* C15, amended: for every batch whose ranges do not overlap and whose
\* positions all translate (the line exists, byte_to_offset returns a
\* column), the byte ranges of any two edits that survive normalization are
\* disjoint and in left-to-right order.
C15_DisjointInOrderIfInputIs ==
    (Returned /\ BatchTranslatable /\ NonOverlapping(b_input))
        => DisjointInOrder(Survivors(b_coalesced))

C15_Witness ==
    /\ Returned /\ BatchTranslatable /\ NonOverlapping(b_input)
    /\ b_input # b_sorted
    /\ Len(Survivors(b_coalesced)) = 2
    /\ Len(Unwrap(b_exec).apply_edits) = 2
    /\ b_coalesced[1].end_offset < b_coalesced[2].start_offset

Evals == {"eval -buffer", "eval -draft", "eval -client"}

\* C16: for an empty edit list the call ends without a panic, returns None,
\* and the caller sends "nop".
C16_EmptyListIsNop ==
    (b_pc = "done" /\ b_input = <<>>) =>
        /\ b_panic = "no"
        /\ b_result = None
        /\ IsSome(b_exec)
        /\ Unwrap(b_exec).kind = "nop"
        /\ Unwrap(b_exec).select = <<>>
        /\ Unwrap(b_exec).apply_edits = <<>>

C16_Witness ==
    /\ b_pc = "done" /\ b_input = <<>>
    /\ b_text # <<>>
    /\ b_result = None
    /\ Unwrap(b_exec).kind = "nop"

\* C17 as stated: when every edit of a non-empty batch is dropped as
\* redundant, the command sent is "nop".
C17_NopIfAllRedundant ==
    (Returned /\ b_edits = <<>>) => Unwrap(b_exec).kind = "nop"

\* C17, amended: when every edit of a non-empty batch is dropped as
\* redundant, the call returns an eval command whose script has no select
\* line and no edit command (and, with a client and a buffer file, the
\* "edit -existing" line); "nop" is sent for an empty edit list only.
C17_EmptyEvalIfAllRedundant ==
    /\ (Returned /\ Survivors(b_coalesced) = <<>>) =>
           /\ b_result = b_exec
           /\ Unwrap(b_exec).kind \in Evals
           /\ Unwrap(b_exec).select = <<>>
           /\ Unwrap(b_exec).apply_edits = <<>>
           /\ Unwrap(b_exec).edit_existing
                  => Unwrap(b_exec).kind = "eval -client"
    /\ (b_pc = "done" /\ b_panic = "no") =>
           (Unwrap(b_exec).kind = "nop" <=> b_input = <<>>)

C17_Witness ==
    /\ Returned
    /\ Len(b_input) = 2 /\ Len(b_coalesced) = 2
    /\ Survivors(b_coalesced) = <<>>
    /\ Unwrap(b_exec).kind = "eval -client"
    /\ Unwrap(b_exec).edit_existing
    /\ Unwrap(b_exec).apply_edits = <<>>

\* The i-th sorted edit does not start at the byte where the edit before it
\* ends.
NotAdjacent(i) ==
    byte_offset(b_text, b_enc, b_sorted[i].range.start)
        # byte_offset(b_text, b_enc, b_sorted[i - 1].range.end)

CommandOf(c) ==
    IF c.range.start = c.range.end
      THEN "lsp-insert-before-selection" ELSE "lsp-replace-selection"

\* Edits that are not adjacent are not coalesced, and every command is an
\* insert-before iff its coalesced edit has start = end.
NeverCoalescedAndClassified ==
    /\ Coalesced =>
           \A i \in 2..Len(b_sorted) :
               NotAdjacent(i) => ~SameCoalesced(i - 1, i)
    /\ Returned =>
           LET sv == Survivors(b_coalesced)
               sc == Unwrap(b_exec)
           IN  /\ Len(sc.apply_edits) = Len(sv)
               /\ \A i \in 1..Len(sv) :
                      /\ sc.apply_edits[i].select = i - 1
                      /\ sc.apply_edits[i].command = CommandOf(sv[i])
                      /\ sc.apply_edits[i].new_text = sv[i].new_text

C19_GoodbyeCleansUpOnZero ==
    [][\A p \in Clients :
          /\ (exit_code[p] = None /\ exit_code'[p] # None) =>
                 IF exit_code'[p] = Some(0)
                   THEN /\ files' = (files \ {"sock", "pid"}) \cup warned'
                        /\ warned' \subseteq files \cap {"sock", "pid"}
                   ELSE files' = files /\ warned' = {}
          /\ (exit[p] = "running" /\ exit'[p] = "goodbye1") =>
                 files' = files]_vars

C19_Witness ==
    \E p \in Clients :
        /\ exit_code[p] = Some(0)
        /\ child[p] = "exited"
        /\ warned = {}
        /\ files = {}
        /\ \E q \in Clients \ {p} : exit[q] = "goodbye1"

\* A backend that left with a non-zero code while the files were there.
NonZeroLeavesFiles ==
    \E p \in Clients :
        /\ exit_code[p] # None /\ exit_code[p] # Some(0)
        /\ files = {"sock", "pid"}
        /\ Cardinality(Spawners) = 1

\* C20: a process that got past the validation has a non-empty SessionId
\* and a non-empty LspSessionId; one that did not has exited with status 1.
C20_SessionIdsNonEmpty ==
    /\ m_pc = "validated" => (session # <<>> /\ lsp_session # <<>>)
    /\ m_pc = "exited" => m_exit = Some(1)

\* The part of C20 that holds: the LspSessionId is never empty, and every
\* exit of the validation has status 1.
LspSessionIdNonEmpty ==
    /\ m_pc = "validated" => lsp_session # <<>>
    /\ m_pc = "exited" => m_exit = Some(1)

(***************************************************************************)
(* Further claims about the daemon lifecycle coordinator.                  *)
(***************************************************************************)

\* C21: an invocation whose File::create failed, or whose lock attempt
\* failed with an error other than contention, has ended with goodbye(1)
\* without entering the retry loop.
C21_LockErrorFatal ==
    \A p \in Clients :
        (created[p] = "err" \/ lockRes[p] = "error") =>
            /\ pc[p] = "done"
            /\ exit[p] = "goodbye1"
            /\ attempt[p] = 0
            /\ connects[p] = 1

\* The part of C21 that holds: a failed File::create is fatal.
CreateErrorFatal ==
    \A p \in Clients :
        created[p] = "err" =>
            /\ pc[p] = "done"
            /\ exit[p] = "goodbye1"
            /\ attempt[p] = 0
            /\ connects[p] = 1

\* A request all of whose bytes belong to valid UTF-8 sequences.
ValidUtf8(v) == from_utf8_lossy(v) = v

\* C22: the bytes written to the control socket after a successful connect,
\* and the bytes piped to the spawned backend's stdin and taken by it as its
\* initial request, are exactly the bytes the client read from its stdin.
C22_RawRequestUnmodified ==
    /\ q_pc = "connected" => socket = q_stdin
    /\ q_pc \in {"spawned", "backend_read", "consumed"} =>
           child_stdin = q_stdin
    /\ q_pc = "consumed" => backend_initial_request = Some(q_stdin)

\* The part of C22 that holds: the bytes on the socket and in the pipe are
\* the client's, and so is the initial request of a request in valid UTF-8.
PipedUnmodified ==
    /\ q_pc = "connected" => socket = q_stdin
    /\ q_pc \in {"spawned", "backend_read", "consumed"} =>
           child_stdin = q_stdin
    /\ q_pc \in {"backend_read", "consumed"} => backend_raw_request = q_stdin
    /\ q_pc = "consumed" /\ ValidUtf8(q_stdin) =>
           backend_initial_request = Some(q_stdin)

(***************************************************************************)
(* Further claims about the buffer path.                                   *)
(***************************************************************************)
\* Every command of the script has a selection of its own: as many ranges
\* as commands, and command i picks the range of edit i.
OneSelectionPerEdit ==
    LET sc == Unwrap(b_exec)
    IN  /\ Len(sc.select) = Len(sc.apply_edits)
        /\ \A i \in 1..Len(sc.apply_edits) :
               /\ sc.apply_edits[i].select + 1 \in 1..Len(sc.select)
               /\ sc.select[sc.apply_edits[i].select + 1] = b_edits[i].range

\* C23 as stated: the select command lists as many ranges, after dedup, as
\* there are edit commands, and the index every command uses addresses the
\* selection of its own edit.
C23_OneSelectionPerEdit == Returned => OneSelectionPerEdit

\* C23, amended: the same, for every batch whose ranges do not overlap one
\* another.
C23_OneSelectionIfDisjoint ==
    (Returned /\ NonOverlapping(b_input)) => OneSelectionPerEdit

C23_Witness ==
    /\ Returned /\ NonOverlapping(b_input)
    /\ Len(b_edits) = 2
    /\ Len(Unwrap(b_exec).select) = 2
    /\ Unwrap(b_exec).select[1] # Unwrap(b_exec).select[2]
    /\ Unwrap(b_exec).apply_edits[2].select = 1
    /\ Unwrap(b_exec).apply_edits[1].command = "lsp-replace-selection"
    /\ Unwrap(b_exec).apply_edits[2].command = "lsp-replace-selection"

\* The column lookup of lines 288-296 fails for the position although its
\* line exists: the character index is beyond the line's bound.
ColumnFails(pos) ==
    pos.line < len_lines(b_text) /\ ~IsSome(column(b_text, b_enc, pos))

LinesExist(es) ==
    \A i \in 1..Len(es) :
        /\ es[i].range.start.line < len_lines(b_text)
        /\ es[i].range.end.line < len_lines(b_text)

HasColumnFailure(es) ==
    \E i \in 1..Len(es) :
        ColumnFails(es[i].range.start) \/ ColumnFails(es[i].range.end)

\* C24: a batch with an edit whose column lookup fails, on one line or
\* across lines, is not aborted: the call returns a script.
C24_ColumnFailureDegrades ==
    (b_pc = "done" /\ LinesExist(b_input) /\ HasColumnFailure(b_input)) =>
        b_panic = "no" /\ IsSome(b_result)

\* The part of C24 that holds: one edit across lines whose column lookup
\* fails counts as column 0 and the call returns a script.
MultilineDegrades ==
    (/\ b_pc = "done" /\ Len(b_input) = 1
     /\ LinesExist(b_input) /\ HasColumnFailure(b_input)
     /\ b_input[1].range.start.line # b_input[1].range.end.line) =>
        /\ b_panic = "no" /\ IsSome(b_result)
        /\ b_coalesced[1].start_offset
               = line_to_byte(b_text, b_input[1].range.start.line)
                   + unwrap_or(column(b_text, b_enc, b_input[1].range.start), 0)

\* One edit within a line whose column lookup fails ends the call in the
\* unwrap of the redundancy filter.
SingleLineAborts ==
    (/\ b_pc = "done" /\ Len(b_input) = 1
     /\ LinesExist(b_input) /\ HasColumnFailure(b_input)
     /\ b_input[1].range.start.line = b_input[1].range.end.line) =>
        b_panic = "filter" /\ ~IsSome(b_result)

\* Some position of the batch has a line index >= the line count or a
\* character index beyond its line's bound.
HasOutOfBounds(es) ==
    \E i \in 1..Len(es) : ~EditInBounds(b_text, b_enc, es[i])

\* C25: a batch with an out-of-bounds line or character index does not get a
\* script: the call fails, and no such position is counted as another offset.
C25_OutOfBoundsSignalled ==
    (b_pc = "done" /\ HasOutOfBounds(b_input)) =>
        ~IsSome(b_result)

\* What the code does with one edit across lines that has an out-of-bounds
\* position: the position counts as column 0 of its line (the end of the text
\* if the line index equals the line count) and the script is returned.
OutOfBoundsClamped ==
    (/\ b_pc = "done" /\ Len(b_input) = 1 /\ HasOutOfBounds(b_input)
     /\ b_input[1].range.start.line # b_input[1].range.end.line) =>
        /\ IsSome(b_result)
        /\ \A pos \in {b_input[1].range.start, b_input[1].range.end} :
               ~InBounds(b_text, b_enc, pos) =>
                   byte_offset(b_text, b_enc, pos)
                       = line_to_byte(b_text, pos.line)

(***************************************************************************)
(* Termination and frame of a client invocation.                           *)
(***************************************************************************)
\* Delivered: main returned. Failed: the invocation printed a diagnostic and
\* left with a non-zero status, through goodbye(1) or through the panic of
\* an expect.
Delivered(p) == pc[p] = "done" /\ exit[p] = "return"
Failed(p) == pc[p] = "done" /\ exit[p] \in {"goodbye1", "panic"}

\* An invocation that tried the lock is never at the lock step again.
OneLockAttempt ==
    \A p \in Clients :
        (lockRes[p] # "none" \/ pc[p] \notin {"connect", "create", "lock"})
            => pc'[p] # "lock" /\ lockRes'[p] = lockRes[p]

\* C26: every invocation ends Delivered or Failed and stays there; it tries
\* the lock at most once and connects at most 1 + MaxAttempts times; the
\* lock winner goes on once the wait on its child has returned.
C26_Terminates ==
    /\ [](\A p \in Clients : connects[p] <= 1 + MaxAttempts)
    /\ [][OneLockAttempt]_vars
    /\ \A p \in Clients : pc[p] = "unlock" ~> (Delivered(p) \/ Failed(p))
    /\ \A p \in Clients : <>[](Delivered(p) \/ Failed(p))

C26_Witness ==
    \E p, q \in Clients :
        /\ \A r \in Clients : Delivered(r) \/ Failed(r)
        /\ Delivered(p) /\ lockRes[p] = "ok" /\ child[p] = "running"
        /\ Failed(q) /\ lockRes[q] = "contended"
        /\ connects[q] = 1 + MaxAttempts

(***************************************************************************)
(* Further claims about coalescing.                                        *)
(***************************************************************************)
AllInBounds(es) ==
    \A i \in 1..Len(es) : EditInBounds(b_text, b_enc, es[i])

\* C27: for a batch whose positions are all in bounds the assertion of line
\* 299 never fails: an edit that starts at the running byte offset starts at
\* the position where the last coalesced edit ends.
C27_AssertionValid ==
    (b_pc = "done" /\ AllInBounds(b_input)) => b_panic # "assert"

\* The same for batches whose positions denote pairwise different bytes: no
\* position at the end of a line that has a line break, none whose column
\* lookup fails.
AssertionValidIfNoAlias ==
    (/\ b_pc = "done" /\ AllInBounds(b_input) /\ BatchTranslatable
     /\ \A i \in 1..Len(b_input) :
            \A pos \in {b_input[i].range.start, b_input[i].range.end} :
                pos.line + 1 < len_lines(b_text) =>
                    pos.character < len_bytes(line(b_text, pos.line)))
        => b_panic # "assert"

(***************************************************************************)
(* Further claims about the file path.                                     *)
(***************************************************************************)
\* C28: a call whose edits are all in bounds, in whatever order, does not
\* end in a panic: it returns Ok or an error and its temporary file is gone.
C28_NeverAbortsMidPass ==
    (/\ f_pc = "done" /\ io_err # "open"
     /\ \A i \in 1..Len(text_edits) : EditInBounds(text, f_enc, text_edits[i]))
        => /\ result \in {"Ok"} \cup Errors
           /\ fs["temp"] = NoFile

\* The part of C28 that holds: edits given left to right without overlap
\* never meet a cursor beyond their start.
OrderedNeverAborts ==
    (/\ f_pc = "done" /\ io_err # "open"
     /\ \A i \in 1..Len(text_edits) : EditInBounds(text, f_enc, text_edits[i])
     /\ Ordered(text, f_enc, text_edits))
        => /\ result \in {"Ok"} \cup Errors
           /\ fs["temp"] = NoFile

(***************************************************************************)
(* The control files a client invocation leaves alone.                     *)
(***************************************************************************)
\* No spawned backend leaves through goodbye in this step: the step is one
\* of a client invocation or of a backend starting.
NoBackendExit == \A p \in Clients : child'[p] = "exited" => child[p] = "exited"

\* C29: a step of a client invocation removes neither the socket file nor
\* the pid file, and the lock file goes only in the remove_file of an
\* invocation that acquired the lock itself.
C29_ClientKeepsSessionFiles ==
    [][/\ NoBackendExit => files \subseteq files'
       /\ (lockfile_path # 0 /\ lockfile_path' = 0) =>
              \E p \in Clients :
                  /\ pc[p] = "remove" /\ lockRes[p] = "ok"
                  /\ pc'[p] = "done" /\ exit'[p] = "return"]_vars

C29_Witness ==
    \E p, q \in Clients :
        /\ {"sock", "pid"} \subseteq files
        /\ lockRes[p] = "ok" /\ exit[p] = "goodbye1" /\ child[p] = "running"
        /\ lockRes[q] = "contended" /\ exit[q] = "goodbye1"
        /\ \E r \in Clients :
               lockRes[r] = "ok" /\ exit[r] = "return" /\ lockfile_path = 0

(***************************************************************************)
(* Conservation of the replacement text.                                   *)
(***************************************************************************)
\* The sorted edits that the loop merges into the coalesced edit before
\* them: those that start at the byte where the edit before them ends.
Merges == {i \in 2..Len(b_sorted) : ~NotAdjacent(i)}

\* C30: the texts of the coalesced edits, concatenated in order, are the
\* texts of the sorted edits concatenated in order, and there are as many
\* coalesced edits as sorted edits less the merges.
C30_TextConserved ==
    Coalesced =>
        /\ ConcatText(b_coalesced, 1, Len(b_coalesced))
               = ConcatText(b_sorted, 1, Len(b_sorted))
        /\ Len(b_coalesced) = Len(b_sorted) - Cardinality(Merges)
        /\ Len(b_sorted) = Len(b_input)

C30_Witness ==
    /\ Coalesced
    /\ Len(b_input) = 2 /\ Cardinality(Merges) = 1 /\ Len(b_coalesced) = 1
    /\ b_input[1].range # b_input[2].range
    /\ b_sorted # b_input
    /\ b_coalesced[1].new_text = <<"\n", "a">>

====
